---------------------------- MODULE Spec2Model ----------------------------
(***************************************************************************)
(* Model of cobbler's template rendering front end, cobbler/templar.py:    *)
(* the Templar class with its render, render_cheetah, render_jinja2 and    *)
(* check_for_invalid_imports methods.                                      *)
(*                                                                         *)
(* Python strings are sequences of one-character strings, so that split,   *)
(* find, replace, strip, lower and the @@token@@ regular expression are    *)
(* computed character by character, as the interpreter computes them.      *)
(* The Cheetah and Jinja2 engines, the macro file and the output file are  *)
(* outside the repository: what they answer is drawn from bounded sets.    *)
(***************************************************************************)
EXTENDS Integers, Sequences, FiniteSets, TLC

(***************************************************************************)
(* String literals of the source and of the inputs.                        *)
(***************************************************************************)
\* "default"
txt_default == <<"d","e","f","a","u","l","t">>
\* "jinja2"
txt_jinja2 == <<"j","i","n","j","a","2">>
\* "cheetah"
txt_cheetah == <<"c","h","e","e","t","a","h">>
\* "bogus"
txt_bogus == <<"b","o","g","u","s">>
\* "#template="
TEMPLATE_DIRECTIVE == <<"#","t","e","m","p","l","a","t","e","=">>
\* "#import"
IMPORT_DIRECTIVE == <<"#","i","m","p","o","r","t">>
\* "TEMPLATE::"
LEGACY_ALIAS == <<"T","E","M","P","L","A","T","E",":",":">>
\* "$"
CHEETAH_SIGIL == <<"$">>
\* "nfs://"
NFS_SCHEME == <<"n","f","s",":","/","/">>
\* "--url"
URL_OPTION == <<"-","-","u","r","l">>
\* "url "
URL_WORD == <<"u","r","l"," ">>
\* "#errorCatcher ListErrors\n"
ERROR_CATCHER == <<"#","e","r","r","o","r","C","a","t","c","h","e","r"," ","L","i","s","t","E","r","r","o","r","s","\n">>
\* "nfs --server "
NFS_SERVER == <<"n","f","s"," ","-","-","s","e","r","v","e","r"," ">>
\* " --dir "
NFS_DIR == <<" ","-","-","d","i","r"," ">>
\* "#url --url="
URL_COMMENT == <<"#","u","r","l"," ","-","-","u","r","l","=">>
\* "# ERROR: Unsupported template type selected!"
ERR_UNSUPPORTED_SELECTOR == <<"#"," ","E","R","R","O","R",":"," ","U","n","s","u","p","p","o","r","t","e","d"," ","t","e","m","p","l","a","t","e"," ","t","y","p","e"," ","s","e","l","e","c","t","e","d","!">>
\* "# ERROR: JINJA2 NOT AVAILABLE. Maybe you need to install python-jinja2?\n"
ERR_JINJA2_MISSING == <<"#"," ","E","R","R","O","R",":"," ","J","I","N","J","A","2"," ","N","O","T"," ","A","V","A","I","L","A","B","L","E","."," ","M","a","y","b","e"," ","y","o","u"," ","n","e","e","d"," ","t","o"," ","i","n","s","t","a","l","l"," ","p","y","t","h","o","n","-","j","i","n","j","a","2","?","\n">>
\* "# ERROR: UNSUPPORTED TEMPLATE TYPE ("
ERR_UNSUPPORTED_TYPE == <<"#"," ","E","R","R","O","R",":"," ","U","N","S","U","P","P","O","R","T","E","D"," ","T","E","M","P","L","A","T","E"," ","T","Y","P","E"," ","(">>
\* "# EXCEPTION OCCURRED DURING JINJA2 TEMPLATE PROCESSING\n"
JINJA2_EXCEPTION_TEXT == <<"#"," ","E","X","C","E","P","T","I","O","N"," ","O","C","C","U","R","R","E","D"," ","D","U","R","I","N","G"," ","J","I","N","J","A","2"," ","T","E","M","P","L","A","T","E"," ","P","R","O","C","E","S","S","I","N","G","\n">>
\* "# ERROR"
ERROR_PREFIX == <<"#"," ","E","R","R","O","R">>
\* "http_port"
key_http_port == <<"h","t","t","p","_","p","o","r","t">>
\* "server"
key_server == <<"s","e","r","v","e","r">>
\* "http_server"
key_http_server == <<"h","t","t","p","_","s","e","r","v","e","r">>
\* "tree"
key_tree == <<"t","r","e","e">>
\* "template_universe"
key_template_universe == <<"t","e","m","p","l","a","t","e","_","u","n","i","v","e","r","s","e">>
\* "a"
key_a == <<"a">>
\* "b"
key_b == <<"b">>
\* "p"
key_p == <<"p">>
\* "80"
txt_80 == <<"8","0">>
\* "h0"
txt_h0 == <<"h","0">>
\* "h1"
txt_h1 == <<"h","1">>
\* "os"
txt_os == <<"o","s">>
\* "al"
txt_al == <<"a","l">>
\* "be"
txt_be == <<"b","e">>
\* "@@b@@"
txt_tok_b == <<"@","@","b","@","@">>
\* "nfs://s:/d"
txt_nfs_ok == <<"n","f","s",":","/","/","s",":","/","d">>
\* "nfs://s"
txt_nfs_bad == <<"n","f","s",":","/","/","s">>

(***************************************************************************)
(* Python's str operations.                                                *)
(***************************************************************************)
\* The characters str.strip() and the regular expression class \S treat as
\* whitespace, among the characters the inputs use.
Whitespace == {" ", "\n", "\t"}

SetMin(S) == CHOOSE m \in S : \A o \in S : m <= o

\* s[i:] starts with sub (i is 1-based)
MatchesAt(s, sub, i) ==
    /\ i + Len(sub) - 1 <= Len(s)
    /\ SubSeq(s, i, i + Len(sub) - 1) = sub

\* str.find: the 0-based index of the first occurrence, -1 when there is none
Find(s, sub) ==
    LET hits == {i \in 1..(Len(s) + 1) : MatchesAt(s, sub, i)}
    IN  IF hits = {} THEN -1 ELSE SetMin(hits) - 1

\* str.startswith
StartsWith(s, prefix) == MatchesAt(s, prefix, 1)

\* s[n:]
DropFirst(s, n) == SubSeq(s, n + 1, Len(s))

\* str.replace(old, new), old not empty: every non-overlapping occurrence,
\* left to right
RECURSIVE Replace(_, _, _)
Replace(s, old, new) ==
    LET i == Find(s, old)
    IN  IF i = -1 THEN s
        ELSE SubSeq(s, 1, i) \o new \o Replace(DropFirst(s, i + Len(old)), old, new)

\* str.split(sep, maxsplit); maxsplit = -1 is no limit
RECURSIVE SplitMax(_, _, _)
SplitMax(s, sep, maxsplit) ==
    LET i == Find(s, sep)
    IN  IF i = -1 \/ maxsplit = 0 THEN <<s>>
        ELSE <<SubSeq(s, 1, i)>> \o
             SplitMax(DropFirst(s, i + Len(sep)), sep,
                      IF maxsplit = -1 THEN -1 ELSE maxsplit - 1)

Split(s, sep) == SplitMax(s, sep, -1)

\* sep.join(parts)
RECURSIVE Join(_, _)
Join(parts, sep) ==
    IF Len(parts) = 0 THEN <<>>
    ELSE IF Len(parts) = 1 THEN parts[1]
    ELSE parts[1] \o sep \o Join(Tail(parts), sep)

\* str.lstrip(chars) and str.rstrip(chars) for a set of characters
RECURSIVE LStripChars(_, _)
LStripChars(s, chars) ==
    IF Len(s) > 0 /\ s[1] \in chars THEN LStripChars(Tail(s), chars) ELSE s

RECURSIVE RStripChars(_, _)
RStripChars(s, chars) ==
    IF Len(s) > 0 /\ s[Len(s)] \in chars
    THEN RStripChars(SubSeq(s, 1, Len(s) - 1), chars) ELSE s

StripChars(s, chars) == RStripChars(LStripChars(s, chars), chars)

\* str.strip() and str.lstrip() without argument: whitespace
Strip(s) == StripChars(s, Whitespace)
LStrip(s) == LStripChars(s, Whitespace)

\* str.lower()
UpperCase == <<"A","B","C","D","E","F","G","H","I","J","K","L","M",
               "N","O","P","Q","R","S","T","U","V","W","X","Y","Z">>
LowerCase == <<"a","b","c","d","e","f","g","h","i","j","k","l","m",
               "n","o","p","q","r","s","t","u","v","w","x","y","z">>
LowerChar(c) ==
    IF \E i \in 1..Len(UpperCase) : UpperCase[i] = c
    THEN LowerCase[CHOOSE i \in 1..Len(UpperCase) : UpperCase[i] = c]
    ELSE c
Lower(s) == [i \in 1..Len(s) |-> LowerChar(s[i])]

\* str(n) for an integer n >= 0
Digits == <<"0","1","2","3","4","5","6","7","8","9">>
RECURSIVE IntToStr(_)
IntToStr(n) ==
    IF n < 10 THEN <<Digits[n + 1]>>
    ELSE IntToStr(n \div 10) \o <<Digits[(n % 10) + 1]>>

(***************************************************************************)
(* Values of a context (search_table): strings, integers and nested maps.  *)
(***************************************************************************)
StrVal(s) == [kind |-> "str", s |-> s]
NumVal(n) == [kind |-> "num", n |-> n]
DictVal(d) == [kind |-> "dict", d |-> d]

\* "%s" % v for a string or an integer
TextOf(v) == IF v.kind = "num" THEN IntToStr(v.n) ELSE v.s

EmptyTable == [k \in {} |-> StrVal(<<>>)]

\* search_table[k] = v
TableSet(table, k, v) ==
    [x \in (DOMAIN table) \cup {k} |-> IF x = k THEN v ELSE table[x]]

(***************************************************************************)
(* Templar.check_for_invalid_imports                                       *)
(***************************************************************************)
\* rest = line.replace("#import", "").replace(" ", "").strip()
ImportTarget(line) ==
    Strip(Replace(Replace(line, IMPORT_DIRECTIVE, <<>>), <<" ">>, <<>>))

\* TRUE when line makes check_for_invalid_imports raise CX
InsecureLine(line, st) ==
    /\ Find(line, IMPORT_DIRECTIVE) # -1
    /\ st.present
    /\ ImportTarget(line) \notin st.cheetah_import_whitelist

\* a variant that looks at the first line alone
check_first_line_only(data, st) == InsecureLine(Split(data, <<"\n">>)[1], st)

\* TRUE when check_for_invalid_imports(data) raises CX
check_for_invalid_imports(data, st) ==
    LET lines == Split(data, <<"\n">>)
    IN  \E i \in 1..Len(lines) : InsecureLine(lines[i], st)

(***************************************************************************)
(* Templar.render, engine selection                                        *)
(***************************************************************************)
\* a variant without the check of the selector
AnySelector == {txt_default, txt_jinja2, txt_cheetah, txt_bogus}

SupportedSelectors == {txt_default, txt_jinja2, txt_cheetah}

\* template_type after the "default" selector is resolved
ResolveDefault(selector, st) ==
    IF selector = txt_default
    THEN IF st.present /\ st.default_template_type # <<>>
         THEN st.default_template_type
         ELSE txt_cheetah
    ELSE selector

\* len(lines) > 0 and lines[0].find("#template=") == 0
HasDirective(raw) ==
    LET lines == Split(raw, <<"\n">>)
    IN  Len(lines) > 0 /\ Find(lines[1], TEMPLATE_DIRECTIVE) = 0

\* lines[0].split("=")[1].strip().lower()
DirectiveType(raw) ==
    LET lines == Split(raw, <<"\n">>)
    IN  Lower(Strip(Split(lines[1], <<"=">>)[2]))

\* a variant that leaves the directive line in the source
KeepDirective(raw) == raw

\* del lines[0]; raw_data = "\n".join(lines)
StripDirective(raw) == Join(Tail(Split(raw, <<"\n">>)), <<"\n">>)

ResolveType(raw, selector, st) ==
    IF HasDirective(raw) THEN DirectiveType(raw) ELSE ResolveDefault(selector, st)

EngineSource(raw) == IF HasDirective(raw) THEN StripDirective(raw) ELSE raw

\* "# ERROR: UNSUPPORTED TEMPLATE TYPE (%s)" % str(template_type)
UnsupportedTypeText(type) == ERR_UNSUPPORTED_TYPE \o type \o <<")">>

(***************************************************************************)
(* Templar.render_cheetah, preprocessing of the source                     *)
(***************************************************************************)
\* "tree" in search_table and search_table["tree"].startswith("nfs://")
NfsTree(table) ==
    /\ key_tree \in DOMAIN table
    /\ StartsWith(table[key_tree].s, NFS_SCHEME)

\* line.find("--url") != -1 and line.find("url ") != -1
IsUrlLine(line) == Find(line, URL_OPTION) # -1 /\ Find(line, URL_WORD) # -1

\* rest.split(":", 2) with rest = search_table["tree"][6:]
NfsParts(table) == SplitMax(DropFirst(table[key_tree].s, 6), <<":">>, 2)

\* (server, directory) = ... raises unless there are exactly two parts
NfsMalformed(table) == Len(NfsParts(table)) # 2

RewriteLine(line, table) ==
    IF IsUrlLine(line)
    THEN NFS_SERVER \o NfsParts(table)[1] \o NFS_DIR \o NfsParts(table)[2]
         \o <<"\n">> \o URL_COMMENT \o table[key_tree].s
    ELSE line

\* newdata += line + "\n" over the lines
RECURSIVE RewriteLines(_, _)
RewriteLines(lines, table) ==
    IF Len(lines) = 0 THEN <<>>
    ELSE RewriteLine(lines[1], table) \o <<"\n">> \o RewriteLines(Tail(lines), table)

AliasReplaced(raw) == Replace(raw, LEGACY_ALIAS, CHEETAH_SIGIL)

\* TRUE when the rewrite raises CX("Invalid syntax for NFS path ...")
NfsRaises(raw, table) ==
    LET lines == Split(AliasReplaced(raw), <<"\n">>)
    IN  /\ NfsTree(table)
        /\ NfsMalformed(table)
        /\ \E i \in 1..Len(lines) : IsUrlLine(lines[i])

\* raw_data as handed to the compiler
PreprocessedSource(raw, table) ==
    LET aliased == AliasReplaced(raw)
        rewritten == IF NfsTree(table)
                     THEN RewriteLines(Split(aliased, <<"\n">>), table)
                     ELSE aliased
    IN  ERROR_CATCHER \o rewritten

\* search_table.update({"template_universe": search_table.copy()})
WithUniverse(table) == TableSet(table, key_template_universe, DictVal(table))

(***************************************************************************)
(* Templar.render, post-filtering                                          *)
(***************************************************************************)
\* hp = search_table.get("http_port", "80")
HttpPort(table) ==
    IF key_http_port \in DOMAIN table THEN table[key_http_port] ELSE StrVal(txt_80)

\* server = search_table.get("server", self.settings.server)
ServerOf(table, st) ==
    IF key_server \in DOMAIN table THEN table[key_server] ELSE StrVal(st.server)

\* repstr
HttpServer(table, st) ==
    IF HttpPort(table) \notin {NumVal(80), StrVal(txt_80)}
    THEN StrVal(TextOf(ServerOf(table, st)) \o <<":">> \o TextOf(HttpPort(table)))
    ELSE ServerOf(table, st)

\* the regular expression @@[\S]*?@@ tried at position i (1-based): the length
\* of its match, 0 when it does not match there
TokenMatchLen(s, i) ==
    IF ~MatchesAt(s, <<"@","@">>, i) THEN 0
    ELSE LET ends == {j \in (i + 2)..Len(s) :
                        /\ MatchesAt(s, <<"@","@">>, j)
                        /\ \A k \in (i + 2)..(j - 1) : s[k] \notin Whitespace}
         IN  IF ends = {} THEN 0 ELSE SetMin(ends) + 2 - i

\* set(match.group() for match in re.finditer(regex, s)) from position i on
RECURSIVE TokenMatchesFrom(_, _)
TokenMatchesFrom(s, i) ==
    IF i > Len(s) THEN {}
    ELSE LET n == TokenMatchLen(s, i)
         IN  IF n = 0 THEN TokenMatchesFrom(s, i + 1)
             ELSE {SubSeq(s, i, i + n - 1)} \cup TokenMatchesFrom(s, i + n)

TokenMatches(s) == TokenMatchesFrom(s, 1)

\* match.strip("@@")
TokenKey(match) == StripChars(match, {"@"})

\* what data_out.replace(match, search_table[match.strip("@@")]) raises, if anything
ReplaceRaises(match, table) ==
    IF TokenKey(match) \notin DOMAIN table THEN "KeyError"
    ELSE IF table[TokenKey(match)].kind # "str" THEN "TypeError"
    ELSE "none"

ReplaceToken(data, match, table) == Replace(data, match, table[TokenKey(match)].s)

\* if data_out.startswith("\n"): data_out = data_out.lstrip()
TrimLeading(data) == IF StartsWith(data, <<"\n">>) THEN LStrip(data) ELSE data

(***************************************************************************)
(* The inputs of the model: template sources, contexts, selectors, the     *)
(* configurations of the instance and what the engines answer.             *)
(***************************************************************************)
\* "x"
tpl_plain == <<"x">>
\* "#template=jinja2\nx"
tpl_jinja2 == <<"#","t","e","m","p","l","a","t","e","=","j","i","n","j","a","2","\n","x">>
\* "#template= JINJA2 \n#import sys"
tpl_jinja2_loose == <<"#","t","e","m","p","l","a","t","e","="," ","J","I","N","J","A","2"," ","\n","#","i","m","p","o","r","t"," ","s","y","s">>
\* "#template=jinja2x\nx"
tpl_jinja2x == <<"#","t","e","m","p","l","a","t","e","=","j","i","n","j","a","2","x","\n","x">>
\* "#template=cheetah\n#import os"
tpl_cheetah_import == <<"#","t","e","m","p","l","a","t","e","=","c","h","e","e","t","a","h","\n","#","i","m","p","o","r","t"," ","o","s">>
\* "x\n#import sys"
tpl_import_sys == <<"x","\n","#","i","m","p","o","r","t"," ","s","y","s">>
\* "a\n #import  os\t"
tpl_import_tab == <<"a","\n"," ","#","i","m","p","o","r","t"," "," ","o","s","\t">>
\* "TEMPLATE::a\nurl --url=u"
tpl_alias_url == <<"T","E","M","P","L","A","T","E",":",":","a","\n","u","r","l"," ","-","-","u","r","l","=","u">>
\* "x"
out_plain == <<"x">>
\* "\n\nf\n\nb"
out_newlines == <<"\n","\n","f","\n","\n","b">>
\* "\n \tf"
out_blank == <<"\n"," ","\t","f">>
\* "u@@a@@v@@a@@"
out_tokens == <<"u","@","@","a","@","@","v","@","@","a","@","@">>
\* "@@a@@@@b@@"
out_two == <<"@","@","a","@","@","@","@","b","@","@">>
\* "\n@@p@@"
out_num == <<"\n","@","@","p","@","@">>
\* "m"
txt_marker == <<"m">>

Templates ==
    {tpl_plain, tpl_jinja2, tpl_jinja2_loose, tpl_jinja2x, tpl_cheetah_import,
     tpl_import_sys, tpl_import_tab, tpl_alias_url}

Selectors == {txt_default, txt_jinja2, txt_cheetah, txt_bogus}

ctx_server == (key_server :> StrVal(txt_h1)) @@ (key_a :> StrVal(txt_al))
ctx_port ==
    (key_server :> StrVal(txt_h1)) @@ (key_http_port :> NumVal(8080))
    @@ (key_a :> StrVal(txt_al)) @@ (key_b :> StrVal(txt_be))
ctx_nfs ==
    (key_server :> StrVal(txt_h1)) @@ (key_http_port :> StrVal(txt_80))
    @@ (key_tree :> StrVal(txt_nfs_ok))
    @@ (key_a :> StrVal(txt_tok_b)) @@ (key_b :> StrVal(txt_be))
ctx_bad ==
    (key_http_port :> NumVal(80)) @@ (key_tree :> StrVal(txt_nfs_bad))
    @@ (key_p :> NumVal(8080))

Contexts == {EmptyTable, ctx_server, ctx_port, ctx_nfs, ctx_bad}

EngineTexts == {out_plain, out_newlines, out_blank, out_tokens, out_two, out_num}

\* the most unresolved-variable markers one engine run lists
MaxMarkers == 1
MarkerLists == {[i \in 1..n |-> txt_marker] : n \in 0..MaxMarkers}

\* Templar(None): self.settings stays None
NoSettings ==
    [present |-> FALSE, default_template_type |-> <<>>,
     cheetah_import_whitelist |-> {}, jinja2_includedir |-> <<>>, server |-> <<>>]
settings_legacy ==
    [present |-> TRUE, default_template_type |-> <<>>,
     cheetah_import_whitelist |-> {txt_os}, jinja2_includedir |-> <<>>,
     server |-> txt_h0]
settings_modern ==
    [present |-> TRUE, default_template_type |-> txt_jinja2,
     cheetah_import_whitelist |-> {}, jinja2_includedir |-> <<"/", "i">>,
     server |-> txt_h0]
settings_bogus ==
    [present |-> TRUE, default_template_type |-> txt_bogus,
     cheetah_import_whitelist |-> {txt_os}, jinja2_includedir |-> <<>>,
     server |-> txt_h0]
SettingsChoices == {NoSettings, settings_legacy, settings_modern, settings_bogus}

\* the file at a call's out_path
NoFile == [exists |-> FALSE, content |-> <<>>]
OldFile == [exists |-> TRUE, content |-> <<"o">>]

\* the calls that may be in progress on the instance at once
Calls == {1, 2}
OutPathOf(t) == IF t = 1 THEN "/out/1" ELSE "/out/2"

\* the arguments of render, with the state of the file at out_path
RequestsOf(t) ==
    {r \in [data : Templates, table : Contexts, out_path : {"None", OutPathOf(t)},
            template_type : Selectors, file : {NoFile, OldFile}] :
        r.out_path = "None" => r.file = NoFile}

\* what str(template(searchList=[search_table])) and errorCatcher().listErrors()
\* give, the engine's texts being among texts
CheetahOutcomes(texts) ==
    [throws : {FALSE}, text : texts, errors : MarkerLists]
    \cup {[throws |-> TRUE, text |-> <<>>, errors |-> <<>>]}

\* what template.render(search_table) gives
Jinja2Outcomes(texts) ==
    [throws : {FALSE}, text : texts] \cup {[throws |-> TRUE, text |-> <<>>]}

\* two calls at once: the arguments and the engines' texts
ConcurrentRequestsOf(t) ==
    [data : {tpl_alias_url, tpl_jinja2},
     table : {IF t = 1 THEN ctx_nfs ELSE ctx_port},
     out_path : {OutPathOf(t)}, template_type : {txt_default}, file : {OldFile}]
ConcurrentTexts == {out_two, out_blank, out_num}

(***************************************************************************)
(* State.                                                                  *)
(***************************************************************************)
VARIABLES
    settings,          \* self.settings (NoSettings for None)
    jinja2_available,  \* the module's jinja2_available
    last_errors,       \* self.last_errors
    pc,                \* where each call of render stands
    raw_data,          \* render's and render_cheetah's local raw_data
    search_table,      \* the caller's context, mutated in place
    out_path,          \* the out_path argument, "None" when absent
    template_type,     \* the template_type argument and local
    data_out,          \* render's local data_out
    matches,           \* the tokens the replacement loop has still to visit
    result,            \* what the call gave its caller
    file,              \* the file at out_path
    writes,            \* how often the call wrote the file
    logged,            \* the levels of the call's logger calls
    call               \* the call's arguments, what its engine was handed and
                       \* what it answered, the text before the trim

vars == <<settings, jinja2_available, last_errors, pc, raw_data, search_table,
          out_path, template_type, data_out, matches, result, file, writes,
          logged, call>>

instance_vars == <<settings, jinja2_available>>

NoResult == [kind |-> "none", text |-> <<>>, exc |-> ""]
NoCall ==
    [data |-> <<>>, table |-> EmptyTable, selector |-> <<>>, file |-> NoFile,
     errors |-> <<>>, engine |-> "none", source |-> <<>>, produced |-> <<>>,
     macros |-> "unread", threw |-> FALSE, output |-> <<>>, untrimmed |-> <<>>]

\* Templar(collection_mgr), the configuration being one of configurations
Constructed(configurations, availability) ==
    /\ settings \in configurations
    /\ jinja2_available \in availability
    /\ last_errors = <<>>
    /\ pc = [t \in Calls |-> "idle"]
    /\ raw_data = [t \in Calls |-> <<>>]
    /\ search_table = [t \in Calls |-> EmptyTable]
    /\ out_path = [t \in Calls |-> "None"]
    /\ template_type = [t \in Calls |-> <<>>]
    /\ data_out = [t \in Calls |-> <<>>]
    /\ matches = [t \in Calls |-> {}]
    /\ result = [t \in Calls |-> NoResult]
    /\ file = [t \in Calls |-> NoFile]
    /\ writes = [t \in Calls |-> 0]
    /\ logged = [t \in Calls |-> <<>>]
    /\ call = [t \in Calls |-> NoCall]

Init == Constructed(SettingsChoices, BOOLEAN)

\* return text
Returns(t, text) ==
    /\ result' = [result EXCEPT ![t] = [kind |-> "return", text |-> text, exc |-> ""]]
    /\ pc' = [pc EXCEPT ![t] = "done"]

\* raise exc
Raises(t, exc) ==
    /\ result' = [result EXCEPT ![t] = [kind |-> "raise", text |-> <<>>, exc |-> exc]]
    /\ pc' = [pc EXCEPT ![t] = "done"]

Goes(t, label) ==
    /\ pc' = [pc EXCEPT ![t] = label]
    /\ UNCHANGED result

(***************************************************************************)
(* Templar.render                                                          *)
(***************************************************************************)
\* the caller calls render(data_input, search_table, out_path, template_type)
Begin(t, requests) ==
    /\ pc[t] = "idle"
    /\ \E r \in requests :
        /\ raw_data' = [raw_data EXCEPT ![t] = r.data]
        /\ search_table' = [search_table EXCEPT ![t] = r.table]
        /\ out_path' = [out_path EXCEPT ![t] = r.out_path]
        /\ template_type' = [template_type EXCEPT ![t] = r.template_type]
        /\ file' = [file EXCEPT ![t] = r.file]
        /\ call' = [call EXCEPT ![t] =
                      [NoCall EXCEPT !.data = r.data, !.table = r.table,
                                     !.selector = r.template_type,
                                     !.file = r.file, !.errors = last_errors]]
    /\ Goes(t, "select")
    /\ UNCHANGED <<instance_vars, last_errors, data_out, matches, writes, logged>>

\* lines 107-133: the selector, the configured default, the directive
Select(t) ==
    /\ pc[t] = "select"
    /\ IF template_type[t] \notin SupportedSelectors
       THEN /\ Returns(t, ERR_UNSUPPORTED_SELECTOR)
            /\ UNCHANGED <<template_type, raw_data>>
       ELSE LET type == ResolveType(raw_data[t], template_type[t], settings)
            IN  /\ template_type' = [template_type EXCEPT ![t] = type]
                /\ raw_data' = [raw_data EXCEPT ![t] = EngineSource(raw_data[t])]
                /\ IF type = txt_cheetah THEN Goes(t, "render_cheetah")
                   ELSE IF type = txt_jinja2
                        THEN IF jinja2_available
                             THEN Goes(t, "render_jinja2")
                             ELSE Returns(t, ERR_JINJA2_MISSING)
                        ELSE Returns(t, UnsupportedTypeText(type))
    /\ UNCHANGED <<instance_vars, last_errors, search_table, out_path, data_out,
                   matches, file, writes, logged, call>>

\* render_cheetah, line 173: self.check_for_invalid_imports(raw_data)
CheckImports(t) ==
    /\ pc[t] = "render_cheetah"
    /\ IF check_for_invalid_imports(raw_data[t], settings)
       THEN Raises(t, "CX: potentially insecure import in template")
       ELSE Goes(t, "preprocess")
    /\ UNCHANGED <<instance_vars, last_errors, raw_data, search_table, out_path,
                   template_type, data_out, matches, file, writes, logged, call>>

\* render_cheetah, lines 176-196: the alias, the NFS rewrite, the error catcher
Preprocess(t) ==
    /\ pc[t] = "preprocess"
    /\ IF NfsRaises(raw_data[t], search_table[t])
       THEN /\ Raises(t, "CX: Invalid syntax for NFS path given during import")
            /\ UNCHANGED raw_data
       ELSE /\ raw_data' = [raw_data EXCEPT ![t] =
                              PreprocessedSource(raw_data[t], search_table[t])]
            /\ Goes(t, "universe")
    /\ UNCHANGED <<instance_vars, last_errors, search_table, out_path,
                   template_type, data_out, matches, file, writes, logged, call>>

\* render_cheetah, lines 198-206: template_universe
Universe(t) ==
    /\ pc[t] = "universe"
    /\ search_table' = [search_table EXCEPT ![t] = WithUniverse(search_table[t])]
    /\ Goes(t, "macros")
    /\ UNCHANGED <<instance_vars, last_errors, raw_data, out_path, template_type,
                   data_out, matches, file, writes, logged, call>>

\* render_cheetah, lines 209-219: the macro file is read, it and the template
\* are compiled; the file may be unreadable and either compilation may fail
ReadMacros(t) ==
    /\ pc[t] = "macros"
    /\ \E outcome \in {"compiled", "unreadable", "invalid"} :
        IF outcome = "unreadable"
        THEN /\ Raises(t, "OSError")
             /\ UNCHANGED call
        ELSE /\ call' = [call EXCEPT ![t].macros = "read"]
             /\ IF outcome = "invalid" THEN Raises(t, "ParseError")
                ELSE Goes(t, "execute")
    /\ UNCHANGED <<instance_vars, last_errors, raw_data, search_table, out_path,
                   template_type, data_out, matches, file, writes, logged>>

\* a variant that keeps the engine's text in a field of the instance
ExecuteSharedOutput(t, texts) ==
    /\ pc[t] = "execute"
    /\ \E o \in CheetahOutcomes(texts) :
        /\ call' = [call EXCEPT ![t].engine = "cheetah",
                                ![t].source = raw_data[t],
                                ![t].produced = o.errors,
                                ![t].threw = o.throws,
                                ![t].output = o.text]
        /\ IF o.throws
           THEN /\ logged' = [logged EXCEPT ![t] = Append(@, "error")]
                /\ Raises(t, "CX: Error templating file")
                /\ UNCHANGED <<data_out, last_errors>>
           ELSE /\ data_out' = [u \in Calls |-> o.text]
                /\ last_errors' = o.errors
                /\ Goes(t, "log_errors")
                /\ UNCHANGED logged
    /\ UNCHANGED <<instance_vars, raw_data, search_table, out_path, template_type,
                   matches, file, writes>>

\* render_cheetah, lines 227-230 and 234-236: the template runs
Execute(t, texts) ==
    /\ pc[t] = "execute"
    /\ \E o \in CheetahOutcomes(texts) :
        /\ call' = [call EXCEPT ![t].engine = "cheetah",
                                ![t].source = raw_data[t],
                                ![t].produced = o.errors,
                                ![t].threw = o.throws,
                                ![t].output = o.text]
        /\ IF o.throws
           THEN /\ logged' = [logged EXCEPT ![t] = Append(@, "error")]
                /\ Raises(t, "CX: Error templating file")
                /\ UNCHANGED <<data_out, last_errors>>
           ELSE /\ data_out' = [data_out EXCEPT ![t] = o.text]
                /\ last_errors' = o.errors
                /\ Goes(t, "log_errors")
                /\ UNCHANGED logged
    /\ UNCHANGED <<instance_vars, raw_data, search_table, out_path, template_type,
                   matches, file, writes>>

\* render_cheetah, lines 231-233 and 238
LogErrors(t) ==
    /\ pc[t] = "log_errors"
    /\ logged' = [logged EXCEPT ![t] =
                    IF last_errors # <<>> THEN @ \o <<"warning", "warning">> ELSE @]
    /\ Goes(t, "hostport")
    /\ UNCHANGED <<instance_vars, last_errors, raw_data, search_table, out_path,
                   template_type, data_out, matches, file, writes, call>>

\* render_jinja2, lines 249-262
RenderJinja2(t, texts) ==
    /\ pc[t] = "render_jinja2"
    /\ \E o \in Jinja2Outcomes(texts) :
        /\ call' = [call EXCEPT ![t].engine = "jinja2",
                                ![t].source = raw_data[t],
                                ![t].threw = o.throws,
                                ![t].output = IF o.throws THEN JINJA2_EXCEPTION_TEXT
                                              ELSE o.text]
        /\ IF o.throws
           THEN /\ logged' = [logged EXCEPT ![t] = @ \o <<"warning", "warning">>]
                /\ data_out' = [data_out EXCEPT ![t] = JINJA2_EXCEPTION_TEXT]
           ELSE /\ data_out' = [data_out EXCEPT ![t] = o.text]
                /\ UNCHANGED logged
    /\ Goes(t, "hostport")
    /\ UNCHANGED <<instance_vars, last_errors, raw_data, search_table, out_path,
                   template_type, matches, file, writes>>

\* lines 137-143: http_server; self.settings.server is evaluated in any case
HostPort(t) ==
    /\ pc[t] = "hostport"
    /\ IF ~settings.present
       THEN /\ Raises(t, "AttributeError")
            /\ UNCHANGED search_table
       ELSE /\ search_table' = [search_table EXCEPT ![t] =
                  TableSet(@, key_http_server, HttpServer(search_table[t], settings))]
            /\ Goes(t, "tokens")
    /\ UNCHANGED <<instance_vars, last_errors, raw_data, out_path, template_type,
                   data_out, matches, file, writes, logged, call>>

\* a variant that opens (and so truncates) the file before the replacements
ScanTokensOpeningFile(t) ==
    /\ pc[t] = "tokens"
    /\ matches' = [matches EXCEPT ![t] = TokenMatches(data_out[t])]
    /\ file' = [file EXCEPT ![t] =
                  IF out_path[t] # "None" THEN [exists |-> TRUE, content |-> <<>>] ELSE @]
    /\ Goes(t, "replace")
    /\ UNCHANGED <<instance_vars, last_errors, raw_data, search_table, out_path,
                   template_type, data_out, writes, logged, call>>

\* lines 146-148: the set of the @@...@@ matches
ScanTokens(t) ==
    /\ pc[t] = "tokens"
    /\ matches' = [matches EXCEPT ![t] = TokenMatches(data_out[t])]
    /\ Goes(t, "replace")
    /\ UNCHANGED <<instance_vars, last_errors, raw_data, search_table, out_path,
                   template_type, data_out, file, writes, logged, call>>

\* lines 149-150, one iteration: a set is iterated in no particular order
ReplaceNext(t) ==
    /\ pc[t] = "replace"
    /\ \E match \in matches[t] :
        /\ matches' = [matches EXCEPT ![t] = @ \ {match}]
        /\ IF ReplaceRaises(match, search_table[t]) # "none"
           THEN /\ Raises(t, ReplaceRaises(match, search_table[t]))
                /\ UNCHANGED data_out
           ELSE /\ data_out' = [data_out EXCEPT ![t] =
                                  ReplaceToken(@, match, search_table[t])]
                /\ Goes(t, "replace")
    /\ UNCHANGED <<instance_vars, last_errors, raw_data, search_table, out_path,
                   template_type, file, writes, logged, call>>

\* lines 153-154, once the loop is over
Trim(t) ==
    /\ pc[t] = "replace"
    /\ matches[t] = {}
    /\ data_out' = [data_out EXCEPT ![t] = TrimLeading(@)]
    /\ call' = [call EXCEPT ![t].untrimmed = data_out[t]]
    /\ Goes(t, "persist")
    /\ UNCHANGED <<instance_vars, last_errors, raw_data, search_table, out_path,
                   template_type, matches, file, writes, logged>>

\* lines 157-160
Persist(t) ==
    /\ pc[t] = "persist"
    /\ IF out_path[t] # "None"
       THEN /\ file' = [file EXCEPT ![t] = [exists |-> TRUE, content |-> data_out[t]]]
            /\ writes' = [writes EXCEPT ![t] = @ + 1]
       ELSE UNCHANGED <<file, writes>>
    /\ Goes(t, "return")
    /\ UNCHANGED <<instance_vars, last_errors, raw_data, search_table, out_path,
                   template_type, data_out, matches, logged, call>>

\* line 162
Return(t) ==
    /\ pc[t] = "return"
    /\ Returns(t, data_out[t])
    /\ UNCHANGED <<instance_vars, last_errors, raw_data, search_table, out_path,
                   template_type, data_out, matches, file, writes, logged, call>>

\* the caller has the result; the instance is used again
Finish(t) ==
    /\ pc[t] = "done"
    /\ pc' = [pc EXCEPT ![t] = "idle"]
    /\ raw_data' = [raw_data EXCEPT ![t] = <<>>]
    /\ search_table' = [search_table EXCEPT ![t] = EmptyTable]
    /\ out_path' = [out_path EXCEPT ![t] = "None"]
    /\ template_type' = [template_type EXCEPT ![t] = <<>>]
    /\ data_out' = [data_out EXCEPT ![t] = <<>>]
    /\ matches' = [matches EXCEPT ![t] = {}]
    /\ result' = [result EXCEPT ![t] = NoResult]
    /\ file' = [file EXCEPT ![t] = NoFile]
    /\ writes' = [writes EXCEPT ![t] = 0]
    /\ logged' = [logged EXCEPT ![t] = <<>>]
    /\ call' = [call EXCEPT ![t] = NoCall]
    /\ UNCHANGED <<instance_vars, last_errors>>

\* a step of call t other than its start and its engine's run
Inner(t) ==
    \/ Select(t)
    \/ CheckImports(t)
    \/ Preprocess(t)
    \/ Universe(t)
    \/ ReadMacros(t)
    \/ LogErrors(t)
    \/ HostPort(t)
    \/ ScanTokens(t)
    \/ ReplaceNext(t)
    \/ Trim(t)
    \/ Persist(t)
    \/ Return(t)
    \/ Finish(t)

\* one call after the other on the instance
Next ==
    \/ Begin(1, RequestsOf(1))
    \/ Execute(1, EngineTexts)
    \/ RenderJinja2(1, EngineTexts)
    \/ Inner(1)

Spec == Init /\ [][Next]_vars

\* two calls on one instance, their steps interleaved in any order
InitConcurrent == Constructed({settings_legacy}, {TRUE})

NextConcurrent ==
    \E t \in Calls :
        \/ Begin(t, ConcurrentRequestsOf(t))
        \/ Execute(t, ConcurrentTexts)
        \/ RenderJinja2(t, ConcurrentTexts)
        \/ Inner(t)

SpecConcurrent == InitConcurrent /\ [][NextConcurrent]_vars

(***************************************************************************)
(* Properties of one call after the other (Spec).                          *)
(***************************************************************************)
\* the call has gone through the engine selection of lines 107-133
Selected(t) == pc[t] \notin {"idle", "select"}

\* the call's engine ran and gave a text
EngineAnswered(t) ==
    \/ call[t].engine = "jinja2"
    \/ call[t].engine = "cheetah" /\ ~call[t].threw

\* the call of a legacy template with an import off the whitelist
ForbiddenImport(t) ==
    LET lines == Split(EngineSource(call[t].data), <<"\n">>)
    IN  /\ call[t].selector \in {txt_default, txt_jinja2, txt_cheetah}
        /\ ResolveType(call[t].data, call[t].selector, settings) = txt_cheetah
        /\ settings.present
        /\ \E i \in 1..Len(lines) :
              /\ Find(lines[i], IMPORT_DIRECTIVE) # -1
              /\ ImportTarget(lines[i]) \notin settings.cheetah_import_whitelist

\* C1: a render that resolves to cheetah with settings present, of a template
\* with a line that contains "#import" and whose target is not in
\* settings.cheetah_import_whitelist, raises before anything else happens: the
\* source is not rewritten, the macro file is not read, no engine runs, the
\* caller's context, last_errors and the file at out_path are as at the call.
C1_WhitelistEnforced ==
    \A t \in Calls :
        (Selected(t) /\ ForbiddenImport(t)) =>
            \/ pc[t] = "render_cheetah"
            \/ /\ pc[t] = "done"
               /\ result[t].kind = "raise"
               /\ result[t].exc = "CX: potentially insecure import in template"
               /\ raw_data[t] = EngineSource(call[t].data)
               /\ call[t].macros = "unread"
               /\ call[t].engine = "none"
               /\ data_out[t] = <<>>
               /\ search_table[t] = call[t].table
               /\ last_errors = call[t].errors
               /\ file[t] = call[t].file
               /\ writes[t] = 0

C1_Witness ==
    \E t \in Calls :
        /\ pc[t] = "done"
        /\ result[t].exc = "CX: potentially insecure import in template"
        /\ out_path[t] # "None"
        /\ file[t] = OldFile
        /\ last_errors # <<>>

\* the first line of the call's template begins with "#template=jinja2"
BeginsWithJinja2Directive(t) ==
    StartsWith(call[t].data, TEMPLATE_DIRECTIVE \o txt_jinja2)

\* the source the engine was handed is the template without its first line
DirectiveLineRemoved(t) ==
    LET first == Split(call[t].data, <<"\n">>)[1]
    IN  \/ call[t].data = first \o <<"\n">> \o call[t].source
        \/ call[t].data = first /\ call[t].source = <<>>

\* C2 as stated: whatever the selector, a template whose first line begins
\* with "#template=jinja2" is rendered by jinja2, without the directive line.
C2_DirectiveAlwaysOverrides ==
    \A t \in Calls :
        (pc[t] = "done" /\ BeginsWithJinja2Directive(t)) =>
            /\ call[t].engine = "jinja2"
            /\ DirectiveLineRemoved(t)

\* C2 as amended: for a selector among default, jinja2 and cheetah, with
\* jinja2 available, a template whose first line is a "#template=" directive
\* that names jinja2 (the text between the first "=" and the next, stripped
\* and lower-cased) is rendered by jinja2, without the directive line.
C2_DirectiveOverrides ==
    \A t \in Calls :
        ( /\ pc[t] \notin {"idle", "select", "render_jinja2"}
          /\ call[t].selector \in {txt_default, txt_jinja2, txt_cheetah}
          /\ jinja2_available
          /\ HasDirective(call[t].data)
          /\ DirectiveType(call[t].data) = txt_jinja2 ) =>
            /\ call[t].engine = "jinja2"
            /\ DirectiveLineRemoved(t)

C2_Witness ==
    \E t \in Calls :
        /\ pc[t] = "done"
        /\ result[t].kind = "return"
        /\ call[t].selector = txt_cheetah
        /\ call[t].data = tpl_jinja2_loose
        /\ call[t].engine = "jinja2"

\* the call's engine selection fails
SelectionFails(t) ==
    LET type == ResolveType(call[t].data, call[t].selector, settings)
    IN  \/ call[t].selector \notin {txt_default, txt_jinja2, txt_cheetah}
        \/ type \notin {txt_cheetah, txt_jinja2}
        \/ type = txt_jinja2 /\ ~jinja2_available

\* C3: when the selector is not default, jinja2 or cheetah, or the resolved
\* type is neither cheetah nor jinja2, or jinja2 is selected and not available,
\* render returns a text that starts with "# ERROR": nothing is raised, no
\* engine runs, the context is not changed, the file is not written.
C3_SelectionFailuresDegraded ==
    \A t \in Calls :
        (Selected(t) /\ SelectionFails(t)) =>
            /\ pc[t] = "done"
            /\ result[t].kind = "return"
            /\ StartsWith(result[t].text, ERROR_PREFIX)
            /\ call[t].engine = "none"
            /\ call[t].macros = "unread"
            /\ search_table[t] = call[t].table
            /\ file[t] = call[t].file
            /\ writes[t] = 0

C3_Witness ==
    \E t \in Calls :
        /\ pc[t] = "done"
        /\ out_path[t] # "None"
        /\ call[t].selector = txt_cheetah
        /\ result[t].text = UnsupportedTypeText(txt_jinja2 \o <<"x">>)

\* C4 as stated: a call whose jinja2 engine threw returns the placeholder text
\* and has logged a warning; it raises nothing.
C4_ModernFailureDegraded ==
    \A t \in Calls :
        (pc[t] = "done" /\ call[t].engine = "jinja2" /\ call[t].threw) =>
            /\ result[t].kind = "return"
            /\ result[t].text = JINJA2_EXCEPTION_TEXT
            /\ \E i \in 1..Len(logged[t]) : logged[t][i] = "warning"

\* the key of a token: the token without its two delimiters
DelimitedKey(token) == SubSeq(token, 3, Len(token) - 2)

\* every token of text has its key in table, with a string or a number
KeysPresent(text, table) ==
    \A token \in TokenMatches(text) :
        /\ DelimitedKey(token) \in DOMAIN table
        /\ table[DelimitedKey(token)].kind \in {"str", "num"}

\* text from position i on, each token replaced by the textual form of its value
RECURSIVE SubstitutedFrom(_, _, _)
SubstitutedFrom(text, i, table) ==
    IF i > Len(text) THEN <<>>
    ELSE LET n == TokenMatchLen(text, i)
         IN  IF n = 0
             THEN <<text[i]>> \o SubstitutedFrom(text, i + 1, table)
             ELSE TextOf(table[DelimitedKey(SubSeq(text, i, i + n - 1))])
                  \o SubstitutedFrom(text, i + n, table)

\* C5 as stated: when the key of every token of the engine's output is in the
\* context, with a string or a number, the replacement loop raises nothing
\* and ends with the output in which every token is replaced by the textual
\* form of its value, and nothing else is changed.
C5_TokensSubstituted ==
    \A t \in Calls :
        (EngineAnswered(t) /\ KeysPresent(call[t].output, search_table[t])) =>
            /\ (pc[t] = "replace" /\ matches[t] = {}) =>
                   data_out[t] = SubstitutedFrom(call[t].output, 1, search_table[t])
            /\ pc[t] = "done" => result[t].exc \notin {"KeyError", "TypeError"}

\* C6 as stated: the trim removes the newlines at the start of the text and
\* nothing else.
C6_OnlyLeadingNewlinesTrimmed ==
    \A t \in Calls :
        pc[t] \in {"persist", "return"} =>
            data_out[t] = LStripChars(call[t].untrimmed, {"\n"})

\* the call ended in one of the fatal failures
FatalFailure(t) == pc[t] = "done" /\ result[t].kind = "raise"

\* C7: a call writes the file at out_path at most once, as its last step
\* before it returns, and with the text it returns; a call that raises
\* (insecure import, macro file, NFS path, engine failure, token lookup) leaves
\* the file as it was.
C7_Persistence ==
    \A t \in Calls :
        /\ writes[t] <= 1
        /\ writes[t] = 1 =>
              /\ pc[t] \in {"return", "done"}
              /\ out_path[t] # "None"
              /\ file[t] = [exists |-> TRUE, content |-> data_out[t]]
        /\ (pc[t] = "done" /\ result[t].kind = "return") =>
              /\ (out_path[t] # "None" /\ EngineAnswered(t)) => writes[t] = 1
              /\ writes[t] = 1 => file[t].content = result[t].text
              /\ writes[t] = 0 => file[t] = call[t].file
        /\ FatalFailure(t) => (writes[t] = 0 /\ file[t] = call[t].file)

C7_Witness ==
    \E t \in Calls :
        /\ pc[t] = "done"
        /\ writes[t] = 1
        /\ call[t].file = OldFile
        /\ result[t].text # <<>>
        /\ file[t].content = result[t].text

\* http_server as the claim gives it
ExpectedHttpServer(table, st) ==
    LET server == IF key_server \in DOMAIN table THEN table[key_server]
                  ELSE StrVal(st.server)
    IN  IF \/ key_http_port \notin DOMAIN table
           \/ table[key_http_port] = NumVal(80)
           \/ table[key_http_port] = StrVal(txt_80)
        THEN server
        ELSE StrVal(server.s \o <<":">> \o TextOf(table[key_http_port]))

\* C8 as stated: after a call whose engine gave a text, the context's
\* http_server is the server, followed by ":port" unless the port is absent,
\* 80 or "80"; the server is the context's, or else the configuration's.
C8_HttpServerSet ==
    \A t \in Calls :
        (pc[t] = "done" /\ EngineAnswered(t)) =>
            /\ key_http_server \in DOMAIN search_table[t]
            /\ search_table[t][key_http_server] =
                   ExpectedHttpServer(call[t].table, settings)

\* C10 as stated: when a call is over, last_errors holds the markers its
\* engine listed, and is empty when it listed none.
C10_LastErrorsOfLastCall ==
    \A t \in Calls :
        pc[t] = "done" => last_errors = call[t].produced

(***************************************************************************)
(* Properties of two calls at once (SpecConcurrent).                       *)
(*                                                                         *)
(* RunsAlone is render as one function of its arguments: every way a call  *)
(* that runs alone can end, with the result, the context, the file and the *)
(* text its engine gave.                                                   *)
(***************************************************************************)
Returned(text) == [kind |-> "return", text |-> text, exc |-> ""]
Raised(exc) == [kind |-> "raise", text |-> <<>>, exc |-> exc]

\* the ways the replacement loop ends, over the orders of the set's iteration
RECURSIVE ReplaceEnds(_, _, _)
ReplaceEnds(data, todo, table) ==
    IF todo = {} THEN {Returned(data)}
    ELSE UNION {IF ReplaceRaises(match, table) # "none"
                THEN {Raised(ReplaceRaises(match, table))}
                ELSE ReplaceEnds(ReplaceToken(data, match, table), todo \ {match}, table)
                : match \in todo}

\* lines 137-162 alone, on the engine's text and the context it left
PostFilterAlone(text, table, r, st) ==
    IF ~st.present
    THEN {[result |-> Raised("AttributeError"), table |-> table, file |-> r.file,
           output |-> text]}
    ELSE LET filtered == TableSet(table, key_http_server, HttpServer(table, st))
         IN  {[result |-> IF end.kind = "raise" THEN end
                          ELSE Returned(TrimLeading(end.text)),
               table |-> filtered,
               file |-> IF end.kind = "return" /\ r.out_path # "None"
                        THEN [exists |-> TRUE, content |-> TrimLeading(end.text)]
                        ELSE r.file,
               output |-> text]
              : end \in ReplaceEnds(text, TokenMatches(text), filtered)}

\* a call that ends before its engine gives a text
EndsEarly(end, table, r) ==
    {[result |-> end, table |-> table, file |-> r.file, output |-> <<>>]}

CheetahAlone(source, r, st, texts) ==
    IF check_for_invalid_imports(source, st)
    THEN EndsEarly(Raised("CX: potentially insecure import in template"), r.table, r)
    ELSE IF NfsRaises(source, r.table)
    THEN EndsEarly(Raised("CX: Invalid syntax for NFS path given during import"),
                   r.table, r)
    ELSE EndsEarly(Raised("OSError"), WithUniverse(r.table), r)
         \cup EndsEarly(Raised("ParseError"), WithUniverse(r.table), r)
         \cup EndsEarly(Raised("CX: Error templating file"), WithUniverse(r.table), r)
         \cup UNION {PostFilterAlone(text, WithUniverse(r.table), r, st) : text \in texts}

RunsAlone(r, st, available, texts) ==
    IF r.template_type \notin {txt_default, txt_jinja2, txt_cheetah}
    THEN EndsEarly(Returned(ERR_UNSUPPORTED_SELECTOR), r.table, r)
    ELSE LET type == ResolveType(r.data, r.template_type, st)
         IN  IF type = txt_cheetah
             THEN CheetahAlone(EngineSource(r.data), r, st, texts)
             ELSE IF type = txt_jinja2
             THEN IF available
                  THEN UNION {PostFilterAlone(text, r.table, r, st)
                              : text \in texts \cup {JINJA2_EXCEPTION_TEXT}}
                  ELSE EndsEarly(Returned(ERR_JINJA2_MISSING), r.table, r)
             ELSE EndsEarly(Returned(UnsupportedTypeText(type)), r.table, r)

\* the arguments call t was given
RequestOf(t) ==
    [data |-> call[t].data, table |-> call[t].table, out_path |-> out_path[t],
     template_type |-> call[t].selector, file |-> call[t].file]

\* how call t ended
EndOf(t) ==
    [result |-> result[t], table |-> search_table[t], file |-> file[t],
     output |-> call[t].output]

\* C9: with two calls on one instance, their steps interleaved in any order,
\* each with its own context and its own out_path, each call ends as it can
\* end when it runs alone on the same arguments with the same text from its
\* engine: the same result, the same context, the same file.
C9_CallsDoNotInterfere ==
    \A t \in Calls :
        pc[t] = "done" =>
            EndOf(t) \in RunsAlone(RequestOf(t), settings, jinja2_available,
                                   EngineTexts \cap {call[t].output})

\* both calls are over, and the markers of call 1 were replaced by those of
\* call 2 before call 1 looked at them
C9_Witness ==
    /\ pc[1] = "done" /\ pc[2] = "done"
    /\ result[1].kind = "return" /\ result[2].kind = "return"
    /\ call[1].produced # <<>> /\ logged[1] = <<>>
    /\ call[2].engine = "cheetah"
    /\ key_template_universe \in DOMAIN search_table[1]
    /\ writes[1] = 1 /\ writes[2] = 1

(***************************************************************************)
(* The order of the replacements (Spec).                                   *)
(***************************************************************************)
\* C11 as stated: when the replacement loop of a call is over, its text is the
\* text the loop ends with in every order of the deduplicated tokens, also
\* when a looked-up value holds a token that occurs in the engine's output:
\* two runs on the same output and context never give different texts.
C11_SubstitutionOrderIrrelevant ==
    \A t \in Calls :
        (pc[t] = "replace" /\ matches[t] = {}) =>
            \A end \in ReplaceEnds(call[t].output, TokenMatches(call[t].output),
                                   search_table[t]) :
                end = Returned(data_out[t])

=============================================================================
